---- MODULE Spec2Model ----
(***************************************************************************)
(* K8sPod (jina/peapods/pods/k8s.py): a Pod realised as Kubernetes         *)
(* deployments, an optional head, `parallel` shards and an optional tail.  *)
(* The model follows the orchestrator (K8sPod) and its units               *)
(* (K8sPod._K8sDeployment) through start, wait_start_success and close.    *)
(* Every action is one call to the control plane (namespace create,        *)
(* deployment create, pod listing, deployment delete) together with the    *)
(* Python that runs up to the next such call; the control plane's answers  *)
(* are inputs drawn with \E.                                               *)
(***************************************************************************)
EXTENDS Integers, Sequences, FiniteSets, TLC

\* Bounds of the model.
MaxParallel == 3   \* args.parallel ranges over 1..MaxParallel
MaxReplicas == 2   \* args.replicas ranges over 1..MaxReplicas
MaxNeeds == 2      \* len(self.needs) ranges over 0..MaxNeeds
MaxIP == 2         \* pod IPs the control plane may report
MaxPolls == 3      \* listings one unit's wait_start_success may perform
MaxCalls == 3      \* calls a caller makes on the orchestrator (or a unit)
MaxFaults == 1     \* control-plane calls that fail although they could succeed

VARIABLES
    args,        \* self.args and len(self.needs) of the K8sPod
    pod,         \* the K8sPod's fields set by __init__
    namespace,   \* cluster: TRUE when the namespace exists
    cluster,     \* cluster: names of the deployments that exist
    services,    \* cluster: replicas and pull policy of each deployment
    exported,    \* caller: what the last read of K8sPod.deployments returned
    phase,       \* per unit name: how far the unit has come in its life
    exitStack,   \* the exit stack's callbacks: the units entered, oldest first
    pc,          \* "new", "idle", or the orchestrator method running
    cur,         \* 1-based position in the unit order of the running method
    stage,       \* inside start(): "create" or "poll" of the current unit
    pod_ips,     \* local pod_ips of the running unit wait_start_success
    ready_on,    \* Running IPs under the unit's label in the listing on which
                 \* the last unit wait returned
    polls,       \* listings performed by the running / last unit wait
    call,        \* the method called last
    result,      \* how the last call ended: "running", "ok" or an error
    raising,     \* the error a running wait_start_success will re-raise
    trace,       \* control-plane calls of the current / last call, in order
    closing,     \* the exit stack as it was when the unwinding began
    owed,        \* names of units created and not yet sent a delete
    calls,       \* number of calls made so far
    faults       \* number of control-plane calls that failed so far

vars == <<args, pod, exported, phase, namespace, cluster, services, exitStack, pc,
          cur,
          stage, pod_ips,
          ready_on, polls, call, result, raising, trace, closing, owed, calls,
          faults>>

\* Python's None, for string-valued attributes.
None == "None"

\* ... import __default_executor__
default_executor == "BaseExecutor"

\* Names are sequences of characters, so that to_dns_name can act on them.
ExecutorName == <<"e", "x", "e", "c">>

\* The name _K8sDeployment.start and K8sPod.deployments single out.
GatewayName == <<"g", "a", "t", "e", "w", "a", "y">>

\* A name whose DNS-safe form is not the name itself.
UnderscoreName == <<"m", "y", "_", "e", "x">>

\* The arguments a K8sPod can be constructed with (needs is len(self.needs));
\* nothing stops a caller from passing parallel = 0 or replicas = 0.
ArgsSpace ==
    [name : {ExecutorName, GatewayName, UnderscoreName},
     parallel : 0..MaxParallel,
     replicas : 0..MaxReplicas,
     needs : 0..MaxNeeds,
     uses : {"executor_img"},
     uses_before : {None, "before_img"},
     uses_after : {None, "after_img"},
     noblock_on_start : BOOLEAN,
     k8s_namespace : {"ns"}]

\* copy.copy(args) with .uses replaced
WithUses(a, uses) == [a EXCEPT !.uses = uses]

\* K8sPod._parse_deployment_args; an Optional is the empty or a one-element set.
ParseDeploymentArgs_NeedsOnly(a) ==
    [head_deployment |->
        IF a.parallel > 1 \/ a.needs > 1 \/ a.uses_before # None
        THEN {WithUses(a, IF a.uses_before # None THEN a.uses_before
                          ELSE default_executor)}
        ELSE {},
     tail_deployment |->
        IF a.parallel > 1 \/ a.uses_after # None
        THEN {WithUses(a, IF a.uses_after # None THEN a.uses_after
                          ELSE default_executor)}
        ELSE {},
     deployments |-> [i \in 1..a.parallel |-> a]]

ParseDeploymentArgs(a) ==
    [head_deployment |->
        IF a.parallel > 1 \/ (a.needs > 1 /\ a.replicas > 1)
           \/ a.uses_before # None
        THEN {WithUses(a, IF a.uses_before # None THEN a.uses_before
                          ELSE default_executor)}
        ELSE {},
     tail_deployment |->
        IF a.parallel > 1 \/ a.uses_after # None
        THEN {WithUses(a, IF a.uses_after # None THEN a.uses_after
                          ELSE default_executor)}
        ELSE {},
     deployments |-> [i \in 1..a.parallel |-> a]]

\* kubernetes_deployment.to_dns_name: the DNS-safe form of a name.
ToDnsName(name) ==
    [i \in DOMAIN name |-> IF name[i] \in {"_", "/"} THEN "-" ELSE name[i]]

\* _K8sDeployment.__init__: the fields the lifecycle reads.  shard_id is an
\* Optional[int], kept as the empty set (None) or a one-element set;
\* K8sPod.__init__ passes shard_id=None for the head, the tail and every shard.
K8sDeployment(name, role, common_args, deployment_args) ==
    [name |-> name,
     dns_name |-> ToDnsName(name),
     role |-> role,
     shard_id |-> {},
     k8s_namespace |-> common_args.k8s_namespace,
     num_replicas |-> common_args.replicas,
     uses |-> deployment_args.uses]

\* The name K8sPod.__init__ gives shard i (0-based) of n.
ShardName_Unindexed(base, i, n) == base

ShardName(base, i, n) == IF n > 1 THEN base \o <<"-", ToString(i)>> ELSE base

HeadName(base) == base \o <<"-", "h", "e", "a", "d">>

TailName(base) == base \o <<"-", "t", "a", "i", "l">>

\* K8sPod.__init__
K8sPodInit(a) ==
    LET parsed == ParseDeploymentArgs(a)
        n == Len(parsed.deployments)
    IN [deployment_args |-> parsed,
        k8s_head_deployment |->
            {K8sDeployment(HeadName(a.name), "head", a, d) :
                d \in parsed.head_deployment},
        k8s_tail_deployment |->
            {K8sDeployment(TailName(a.name), "tail", a, d) :
                d \in parsed.tail_deployment},
        k8s_deployments |->
            [i \in 1..n |->
                K8sDeployment(ShardName(a.name, i - 1, n), "shard", a,
                              parsed.deployments[i])]]

\* K8sPod.__init__: the ports every unit of a pod is given.
fixed_head_port_in == 8081

fixed_tail_port_out == 8082

\* _K8sDeployment.to_node
ToNode(u) ==
    [name |-> u.name,
     head_host |-> u.dns_name \o <<".", u.k8s_namespace, ".", "svc">>,
     head_port_in |-> fixed_head_port_in,
     tail_port_out |-> fixed_tail_port_out,
     head_zmq_identity |-> ""]

ToNodes(us) == [i \in DOMAIN us |-> ToNode(us[i])]

\* The K8sPod before __init__ has assigned its fields.
Unconstructed ==
    [deployment_args |->
        [head_deployment |-> {}, tail_deployment |-> {}, deployments |-> <<>>],
     k8s_head_deployment |-> {},
     k8s_tail_deployment |-> {},
     k8s_deployments |-> <<>>]

\* An Optional unit as a sequence of zero or one unit.
OptSeq(o) == IF o = {} THEN <<>> ELSE <<CHOOSE u \in o : TRUE>>

\* The order in which K8sPod.start enters its units.
StartOrder(p) ==
    OptSeq(p.k8s_head_deployment) \o p.k8s_deployments
        \o OptSeq(p.k8s_tail_deployment)

\* The order in which K8sPod.wait_start_success waits on its units.
WaitOrder_ShardsFirst(p) ==
    p.k8s_deployments \o OptSeq(p.k8s_head_deployment)
        \o OptSeq(p.k8s_tail_deployment)

WaitOrder(p) ==
    OptSeq(p.k8s_head_deployment) \o p.k8s_deployments
        \o OptSeq(p.k8s_tail_deployment)

\* Errors a call can end with.
ControlPlaneError == "ControlPlaneError"

ValueError == "ValueError"

\* _K8sDeployment.start: the name the deployment is created under
\* (_deploy_gateway passes self.name, _deploy_runtime self.dns_name).
DeployName(u) ==
    IF u.name = GatewayName THEN u.name
    ELSE u.dns_name

\* _K8sDeployment.start: the deployment that deploy_service is asked for,
\* by _deploy_gateway for the unit named 'gateway' and by _deploy_runtime for
\* every other unit; pea_id is the tag _deploy_runtime puts in --uses-metas.
DeployService_ConfiguredReplicas(u) ==
    IF u.name = GatewayName
    THEN [name |-> u.name, replicas |-> u.num_replicas,
          pull_policy |-> "Always", pea_id |-> {}]
    ELSE [name |-> u.dns_name, replicas |-> u.num_replicas,
          pull_policy |-> "IfNotPresent", pea_id |-> u.shard_id]

DeployService(u) ==
    IF u.name = GatewayName
    THEN [name |-> u.name, replicas |-> 1, pull_policy |-> "Always",
          pea_id |-> {}]
    ELSE [name |-> u.dns_name, replicas |-> u.num_replicas,
          pull_policy |-> "IfNotPresent", pea_id |-> u.shard_id]

\* The deployments of the cluster after one is created or replaced.
Applied(deployed, d) == {e \in deployed : e.name # d.name} \cup {d}

\* The pods one listing may report while unit u waits, having seen the IPs
\* `seen`. The namespace always holds a Running pod of another app and a pod
\* of u that is not Running; beside them any set of Running pods of u, one
\* per IP: any of the IPs seen before, and new ones, which the cluster hands
\* out in increasing order (IPs are interchangeable).
OtherApp == <<"o", "t", "h", "e", "r">>

Bystanders(u) ==
    {[ip |-> MaxIP + 1, app |-> OtherApp, phase |-> "Running"],
     [ip |-> MaxIP + 2, app |-> u.name, phase |-> "Pending"]}

HighestIP(seen) ==
    IF seen = {} THEN 0 ELSE CHOOSE i \in seen : \A j \in seen : j <= i

RunningSets(seen) ==
    {S \cup ((HighestIP(seen) + 1)..j) :
        S \in SUBSET seen, j \in HighestIP(seen)..MaxIP}

Listings(u, seen) ==
    {Bystanders(u) \cup [ip : S, app : {u.name}, phase : {"Running"}] :
        S \in RunningSets(seen)}

\* The filter of _K8sDeployment.wait_start_success.
IsMine(u, pod_info) == pod_info.app = u.name /\ pod_info.phase = "Running"

\* One pass of the for loop of _K8sDeployment.wait_start_success over the
\* listed items (taken in IP order), from item i on: the grown pod_ips and
\* whether the loop returned.
RECURSIVE ScanItems(_, _, _, _)
ScanItems(u, L, i, ips) ==
    IF i > MaxIP + 2 THEN [pod_ips |-> ips, returned |-> FALSE]
    ELSE LET here == {p \in L : p.ip = i /\ IsMine(u, p)}
             grown == ips \cup {p.ip : p \in here}
         IN IF here # {} /\ Cardinality(grown) = u.num_replicas
            THEN [pod_ips |-> grown, returned |-> TRUE]
            ELSE ScanItems(u, L, i + 1, grown)

\* One iteration of the while loop: list, scan; pod_ips lives across polls.
PollOnce_AnyRunning(u, L, ips) ==
    LET mine == {p.ip : p \in {q \in L : IsMine(u, q)}}
    IN [pod_ips |-> ips \cup mine, returned |-> mine # {}]

PollOnce(u, L, ips) == ScanItems(u, L, 1, ips)

\* The answers a delete call can give.
DeleteOutcomes == {"Success", "Failure", "Raise"}

\* client.delete_namespaced_deployment(name=self.name, ...): the cluster after.
DeleteDeployment_Collection(cl, u, outcome) ==
    IF outcome = "Success" THEN {} ELSE cl

DeleteDeployment(cl, u, outcome) ==
    IF outcome = "Success" THEN cl \ {u.name} ELSE cl

\* _K8sDeployment.close: whether it raises (every Exception is caught).
UnitCloseRaises_Uncaught(outcome) == outcome = "Raise"

UnitCloseRaises(outcome) == FALSE

\* K8sPod(BasePod, ExitFIFO): the exit stack of the orchestrator is the
\* first-in-first-out one, which calls the callbacks from the oldest on.
\* The callback it calls next, and the stack without it.
ExitNext(stack) == Head(stack)

ExitRest(stack) == Tail(stack)

\* ExitStack.enter_context after cm.__enter__() returned: push cm.__exit__.
Push_Twice(stack, u) == Append(Append(stack, u), u)

Push(stack, u) == Append(stack, u)

\* The unit the running method is at.
CurUnit ==
    IF pc = "wait" THEN WaitOrder(pod)[cur] ELSE StartOrder(pod)[cur]

TypeOK ==
    /\ args \in ArgsSpace
    /\ namespace \in BOOLEAN
    /\ pc \in {"new", "idle", "start", "wait", "close"}
    /\ stage \in {"create", "poll"}
    /\ pod_ips \subseteq 1..(MaxIP + 2)
    /\ ready_on \subseteq 1..(MaxIP + 2)
    /\ polls \in 0..MaxPolls
    /\ call \in {"none", "start", "wait", "close", "unit_close", "deployments"}
    /\ result \in {"none", "running", "ok", ControlPlaneError, ValueError}
    /\ raising \in {"none", ControlPlaneError}
    /\ calls \in 0..MaxCalls
    /\ faults \in 0..MaxFaults

\* The arguments the lifecycle is explored for: every topology shape in
\* both blocking modes, and every replica count for the pods of one shard.
LifecycleArgs ==
    {a \in ArgsSpace :
        /\ a.name = ExecutorName
        /\ a.parallel >= 1
        /\ a.replicas >= 1
        /\ a.needs = 0
        /\ a.parallel > 1 =>
              /\ a.uses_before = None
              /\ a.uses_after = None
              /\ a.replicas = 1}

\* The units of the Pod.
Units(p) ==
    p.k8s_head_deployment \cup p.k8s_tail_deployment
        \cup {p.k8s_deployments[i] : i \in DOMAIN p.k8s_deployments}

\* No unit of the pod has been started.
AllUnstarted(p) == [n \in {u.name : u \in Units(p)} |-> "Unstarted"]

Fresh ==
    /\ exported = <<>>
    /\ phase = AllUnstarted(pod)
    /\ namespace = FALSE
    /\ cluster = {}
    /\ services = {}
    /\ exitStack = <<>>
    /\ cur = 0
    /\ stage = "create"
    /\ pod_ips = {}
    /\ ready_on = {}
    /\ polls = 0
    /\ call = "none"
    /\ result = "none"
    /\ raising = "none"
    /\ trace = <<>>
    /\ closing = <<>>
    /\ owed = {}
    /\ calls = 0
    /\ faults = 0

\* The state after K8sPod(args, needs) has been constructed.
Init ==
    /\ args \in LifecycleArgs
    /\ pod = K8sPodInit(args)
    /\ pc = "idle"
    /\ Fresh

\* A control-plane call fails although it could have succeeded.
Fault == faults < MaxFaults /\ faults' = faults + 1

\* A caller's call begins; the locals of the previous call are gone.
Begin(method) ==
    /\ pc = "idle"
    /\ calls < MaxCalls
    /\ calls' = calls + 1
    /\ call' = method
    /\ pod_ips' = {}
    /\ polls' = 0
    /\ ready_on' = {}
    /\ raising' = "none"

\* kubernetes_tools.create('namespace', ...) when it succeeds: whether the
\* namespace exists afterwards.
CreateNamespace_Skipped(exists) == exists

CreateNamespace(exists) == TRUE

\* K8sPod.start up to its first unit: the namespace is created.
Start ==
    /\ Begin("start")
    /\ trace' = <<<<"create_namespace", args.k8s_namespace>>>>
    /\ closing' = <<>>
    /\ stage' = "create"
    /\ \/ /\ namespace' = CreateNamespace(namespace)
          /\ IF StartOrder(pod) = <<>>
             THEN pc' = "idle" /\ cur' = 0 /\ result' = "ok"
             ELSE pc' = "start" /\ cur' = 1 /\ result' = "running"
          /\ UNCHANGED faults
       \/ /\ Fault
          /\ pc' = "idle"
          /\ cur' = 0
          /\ result' = ControlPlaneError
          /\ UNCHANGED namespace
    /\ UNCHANGED <<args, exported, phase, pod, cluster, services, exitStack, owed>>

\* enter_context(unit) has returned: the unit is pushed and start goes on to
\* the next unit, or returns.
Entered(u) ==
    /\ exitStack' = Push(exitStack, u)
    /\ stage' = "create"
    /\ IF cur < Len(StartOrder(pod))
       THEN /\ cur' = cur + 1
            /\ pc' = "start"
            /\ result' = "running"
       ELSE /\ cur' = 0
            /\ pc' = "idle"
            /\ result' = "ok"

\* _K8sDeployment.start: whether it waits for readiness before it returns.
BlocksOnStart_Never(a) == FALSE

BlocksOnStart(a) == ~a.noblock_on_start

\* _K8sDeployment.start of the current unit: the create call.
Deploy ==
    /\ pc = "start"
    /\ stage = "create"
    /\ LET u == CurUnit IN
       /\ trace' = Append(trace, <<"create", u.name>>)
       /\ \/ /\ cluster' = cluster \cup {DeployName(u)}
             /\ services' = Applied(services, DeployService(u))
             /\ phase' = [phase EXCEPT ![u.name] = "Starting"]
             /\ owed' = owed \cup {u.name}
             /\ IF BlocksOnStart(args)
                THEN /\ stage' = "poll"
                     /\ UNCHANGED <<exitStack, pc, cur, result>>
                ELSE Entered(u)
             /\ UNCHANGED faults
          \/ /\ Fault
             /\ pc' = "idle"
             /\ cur' = 0
             /\ result' = ControlPlaneError
             /\ UNCHANGED <<cluster, services, phase, owed, exitStack,
                            stage>>
    /\ pod_ips' = {}
    /\ polls' = 0
    /\ ready_on' = {}
    /\ UNCHANGED <<args, exported, pod, namespace, call, raising, closing, calls>>

\* K8sPod.wait_start_success: the precondition it checks first.
WaitAllowed_Always(a) == TRUE

WaitAllowed(a) == a.noblock_on_start

\* K8sPod.wait_start_success up to its first listing.
WaitStartSuccess ==
    /\ Begin("wait")
    /\ trace' = <<>>
    /\ closing' = <<>>
    /\ stage' = "create"
    /\ IF ~WaitAllowed(args)
       THEN /\ result' = ValueError
            /\ cur' = 0
            /\ UNCHANGED pc
       ELSE IF WaitOrder(pod) = <<>>
            THEN result' = "ok" /\ cur' = 0 /\ UNCHANGED pc
            ELSE pc' = "wait" /\ cur' = 1 /\ result' = "running"
    /\ UNCHANGED <<args, exported, phase, pod, namespace, cluster, services, exitStack, owed,
                   faults>>

\* A unit wait is running.
Waiting == (pc = "start" /\ stage = "poll") \/ pc = "wait"

\* The current unit's wait_start_success has returned.
Ready(u) ==
    /\ trace' = Append(trace, <<"ready", u.name>>)
    /\ IF pc = "start"
       THEN Entered(u)
       ELSE /\ UNCHANGED <<exitStack, stage>>
            /\ IF cur < Len(WaitOrder(pod))
               THEN /\ cur' = cur + 1
                    /\ UNCHANGED <<pc, result>>
               ELSE /\ cur' = 0
                    /\ pc' = "idle"
                    /\ result' = "ok"

\* The listings the running unit wait has performed; after a wait has
\* returned, `polls` still holds the number of listings it took.
PollsSoFar == IF ready_on # {} THEN 0 ELSE polls

\* One iteration of a unit's wait_start_success: the listing answers.
Poll ==
    /\ Waiting
    /\ PollsSoFar < MaxPolls
    /\ polls' = PollsSoFar + 1
    /\ LET u == CurUnit IN
       \E L \in Listings(u, pod_ips) :
          LET r == PollOnce(u, L, pod_ips) IN
          IF r.returned
          THEN /\ Ready(u)
               /\ phase' = [phase EXCEPT ![u.name] = "Ready"]
               /\ ready_on' = {p.ip : p \in {q \in L : IsMine(u, q)}}
               /\ pod_ips' = {}
          ELSE /\ pod_ips' = r.pod_ips
               /\ ready_on' = {}
               /\ UNCHANGED <<phase, exitStack, pc, cur, stage, result,
                              trace>>
    /\ UNCHANGED <<args, exported, pod, namespace, cluster, services, call, raising,
                   closing,
                   owed, calls, faults>>

\* The exit stack begins to unwind (K8sPod.__exit__, reached from close()).
Unwinding ==
    /\ closing' = exitStack
    /\ cur' = 0
    /\ IF exitStack = <<>>
       THEN /\ pc' = "idle"
            /\ result' = IF raising' = "none" THEN "ok" ELSE raising'
       ELSE /\ pc' = "close"
            /\ result' = "running"

\* The except clause of K8sPod.wait_start_success: close(), then re-raise.
WaitFailed_NoClose ==
    /\ raising' = ControlPlaneError
    /\ pc' = "idle"
    /\ cur' = 0
    /\ result' = ControlPlaneError
    /\ UNCHANGED closing

WaitFailed ==
    /\ raising' = ControlPlaneError
    /\ Unwinding

\* One iteration of a unit's wait_start_success: the listing raises. Inside
\* start() the error leaves start; inside K8sPod.wait_start_success the
\* except clause runs.
PollRaises ==
    /\ Waiting
    /\ PollsSoFar < MaxPolls
    /\ Fault
    /\ phase' = [phase EXCEPT ![CurUnit.name] = "Failed"]
    /\ polls' = 0
    /\ pod_ips' = {}
    /\ ready_on' = {}
    /\ IF pc = "start"
       THEN /\ pc' = "idle"
            /\ cur' = 0
            /\ result' = ControlPlaneError
            /\ UNCHANGED <<raising, closing>>
       ELSE WaitFailed
    /\ UNCHANGED <<args, exported, pod, namespace, cluster, services, exitStack, stage,
                   call,
                   trace, owed, calls>>

\* K8sPod.close up to its first delete.
Close ==
    /\ Begin("close")
    /\ trace' = <<>>
    /\ stage' = "create"
    /\ Unwinding
    /\ UNCHANGED <<args, exported, phase, pod, namespace, cluster, services, exitStack, owed,
                   faults>>

\* The answer of the delete call of unit u's close(): a deployment that does
\* not exist cannot be deleted; one that exists is, unless the call fails.
DeleteAnswer(u, o) ==
    IF u.name \in cluster
    THEN IF o = "Success" THEN UNCHANGED faults ELSE Fault
    ELSE o = "Raise" /\ UNCHANGED faults

\* The exit stack calls its next callback: _K8sDeployment.__exit__ -> close,
\* one delete call.
Unwind ==
    /\ pc = "close"
    /\ LET u == ExitNext(exitStack) IN
       \E o \in DeleteOutcomes :
          /\ DeleteAnswer(u, o)
          /\ cluster' = DeleteDeployment(cluster, u, o)
          /\ services' = {d \in services : d.name \in cluster'}
          /\ phase' = [phase EXCEPT ![u.name] = "Closed"]
          /\ trace' = Append(trace, <<"delete", u.name>>)
          /\ owed' = owed \ {u.name}
          /\ raising' = IF UnitCloseRaises(o) THEN ControlPlaneError
                        ELSE raising
    /\ exitStack' = ExitRest(exitStack)
    /\ IF exitStack' = <<>>
       THEN /\ pc' = "idle"
            /\ result' = IF raising' = "none" THEN "ok" ELSE raising'
       ELSE UNCHANGED <<pc, result>>
    /\ UNCHANGED <<args, exported, pod, namespace, cur, stage, pod_ips, ready_on, polls,
                   call, closing, calls>>

\* A caller calls close() on one unit directly.
UnitClose ==
    /\ Begin("unit_close")
    /\ \E u \in Units(pod) :
       \E o \in DeleteOutcomes :
          /\ DeleteAnswer(u, o)
          /\ cluster' = DeleteDeployment(cluster, u, o)
          /\ services' = {d \in services : d.name \in cluster'}
          /\ phase' = [phase EXCEPT ![u.name] = "Closed"]
          /\ trace' = <<<<"delete", u.name>>>>
          /\ owed' = owed \ {u.name}
          /\ result' = IF UnitCloseRaises(o) THEN ControlPlaneError ELSE "ok"
    /\ closing' = <<>>
    /\ cur' = 0
    /\ stage' = "create"
    /\ UNCHANGED <<args, exported, pod, namespace, exitStack, pc>>

\* The K8sPod.deployments property.
Deployments_ShardsFirst(p, a) ==
    IF a.name = GatewayName
    THEN <<ToNode(p.k8s_deployments[1])>>
    ELSE ToNodes(p.k8s_deployments) \o ToNodes(OptSeq(p.k8s_head_deployment))
            \o ToNodes(OptSeq(p.k8s_tail_deployment))

Deployments(p, a) ==
    IF a.name = GatewayName
    THEN <<ToNode(p.k8s_deployments[1])>>
    ELSE ToNodes(OptSeq(p.k8s_head_deployment)) \o ToNodes(p.k8s_deployments)
            \o ToNodes(OptSeq(p.k8s_tail_deployment))

\* A caller reads K8sPod.deployments.
GetDeployments ==
    /\ Begin("deployments")
    /\ exported' = Deployments(pod, args)
    /\ UNCHANGED <<args, pod, phase, namespace, cluster, services, exitStack, pc,
                   cur, stage, result, trace, closing, owed, faults>>

\* The orchestrator's methods.
Next ==
    \/ Start
    \/ Deploy
    \/ WaitStartSuccess
    \/ Poll
    \/ PollRaises
    \/ Close
    \/ Unwind

Spec == Init /\ [][Next]_vars

\* The orchestrator starts its units; a caller closes units directly.
NextUnit ==
    \/ Start
    \/ Deploy
    \/ Poll
    \/ PollRaises
    \/ UnitClose

SpecUnit == Init /\ [][NextUnit]_vars

\* Construction: every argument tuple, before __init__ has run.
InitPlan ==
    /\ args \in ArgsSpace
    /\ pod = Unconstructed
    /\ pc = "new"
    /\ Fresh

\* K8sPod.__init__
Construct ==
    /\ pc = "new"
    /\ pod' = K8sPodInit(args)
    /\ phase' = AllUnstarted(pod')
    /\ pc' = "idle"
    /\ UNCHANGED <<args, exported, namespace, cluster, services, exitStack, cur, stage,
                   pod_ips,
                   ready_on, polls, call, result, raising, trace, closing,
                   owed, calls, faults>>

\* K8sPod.update_pea_args
UpdatePeaArgs ==
    /\ pc = "idle"
    /\ pod' = [pod EXCEPT !.deployment_args = ParseDeploymentArgs(args)]
    /\ UNCHANGED <<args, exported, phase, namespace, cluster, services, exitStack, pc, cur,
                   stage,
                   pod_ips, ready_on, polls, call, result, raising, trace,
                   closing, owed, calls, faults>>

NextPlan == Construct \/ UpdatePeaArgs

\* Construction and lifecycle of a pod whose parallel or replicas is 0.
InvalidArgs ==
    {a \in ArgsSpace :
        /\ a.name = ExecutorName
        /\ a.parallel < 1 \/ a.replicas < 1
        /\ a.needs = 0
        /\ a.uses_before = None
        /\ a.uses_after = None}

InitInvalid ==
    /\ args \in InvalidArgs
    /\ pod = Unconstructed
    /\ pc = "new"
    /\ Fresh

NextInvalid ==
    \/ Construct
    \/ Start
    \/ Deploy
    \/ WaitStartSuccess
    \/ Poll
    \/ PollRaises
    \/ Close
    \/ Unwind

SpecInvalid == InitInvalid /\ [][NextInvalid]_vars

\* Deferred start and reads of the deployments property, for the pod named
\* 'gateway' and for another.
ExportArgs ==
    {a \in ArgsSpace :
        /\ a.name \in {ExecutorName, GatewayName}
        /\ a.parallel >= 1
        /\ a.replicas >= 1
        /\ a.needs = 0
        /\ a.noblock_on_start}

InitExport ==
    /\ args \in ExportArgs
    /\ pod = K8sPodInit(args)
    /\ pc = "idle"
    /\ Fresh

NextExport == Start \/ Deploy \/ GetDeployments

SpecExport == InitExport /\ [][NextExport]_vars

\* The lifecycle of the pod named 'gateway'.
GatewayArgs ==
    {a \in ArgsSpace :
        /\ a.name = GatewayName
        /\ a.parallel >= 1
        /\ a.replicas >= 1
        /\ a.needs = 0
        /\ a.uses_before = None
        /\ a.uses_after = None
        /\ a.parallel > 1 => a.replicas = 1}

InitGateway ==
    /\ args \in GatewayArgs
    /\ pod = K8sPodInit(args)
    /\ pc = "idle"
    /\ Fresh

SpecGateway == InitGateway /\ [][Next]_vars

SpecPlan == InitPlan /\ [][NextPlan]_vars

\* The lifecycle of a one-shard pod whose name is, or is not, its own
\* DNS-safe form.
NameArgs ==
    {a \in ArgsSpace :
        /\ a.name \in {ExecutorName, UnderscoreName}
        /\ a.parallel = 1
        /\ a.replicas >= 1
        /\ a.needs = 0}

InitName ==
    /\ args \in NameArgs
    /\ pod = K8sPodInit(args)
    /\ pc = "idle"
    /\ Fresh

SpecName == InitName /\ [][Next]_vars

\* The listing of a control plane that reports, as Running and one per IP,
\* exactly as many pods of unit u as the replica count u's deployment was
\* created with (beside the pods that are not u's or not Running).
SteadyListing(u) ==
    Bystanders(u)
        \cup [ip : 1..DeployService(u).replicas, app : {u.name},
              phase : {"Running"}]

\* One iteration of a unit's wait_start_success against that control plane.
\* The loop has no bound of its own; `polls` stops counting at MaxPolls.
SteadyPoll ==
    /\ Waiting
    /\ polls' = IF PollsSoFar < MaxPolls THEN PollsSoFar + 1 ELSE MaxPolls
    /\ LET u == CurUnit
           L == SteadyListing(u)
           r == PollOnce(u, L, pod_ips)
       IN IF r.returned
          THEN /\ Ready(u)
               /\ phase' = [phase EXCEPT ![u.name] = "Ready"]
               /\ ready_on' = {p.ip : p \in {q \in L : IsMine(u, q)}}
               /\ pod_ips' = {}
          ELSE /\ pod_ips' = r.pod_ips
               /\ ready_on' = {}
               /\ UNCHANGED <<phase, exitStack, pc, cur, stage, result,
                              trace>>
    /\ UNCHANGED <<args, exported, pod, namespace, cluster, services, call,
                   raising, closing, owed, calls, faults>>

\* Runtime pods and the gateway pod against the steady control plane: every
\* listing succeeds, and a running start() or wait keeps taking its steps.
SteadyArgs == LifecycleArgs \cup GatewayArgs

InitSteady ==
    /\ args \in SteadyArgs
    /\ pod = K8sPodInit(args)
    /\ pc = "idle"
    /\ Fresh

NextSteady ==
    \/ Start
    \/ Deploy
    \/ WaitStartSuccess
    \/ SteadyPoll

SpecSteady ==
    /\ InitSteady
    /\ [][NextSteady]_vars
    /\ WF_vars(Deploy)
    /\ WF_vars(SteadyPoll)

(***************************************************************************)
(* Properties.                                                             *)
(***************************************************************************)

IsDelete(e) == e[1] = "delete"

IsUnitEvent(e) == e[1] \in {"create", "ready"}

\* The unit names of the entries of a trace, and of a sequence of units.
EntryNames(tr) == [i \in DOMAIN tr |-> tr[i][2]]

UnitNames(us) == [i \in DOMAIN us |-> us[i].name]

\* The names a trace sent a delete for, in order.
DeleteNames(tr) == EntryNames(SelectSeq(tr, IsDelete))

Reverse(q) == [i \in DOMAIN q |-> q[Len(q) + 1 - i]]

IsPrefix(a, b) == Len(a) <= Len(b) /\ a = SubSeq(b, 1, Len(a))

Count(q, x) == Cardinality({i \in DOMAIN q : q[i] = x})

HasHead == pod.k8s_head_deployment # {}

HasTail == pod.k8s_tail_deployment # {}

NumShards == Len(pod.k8s_deployments)

HeadNames == UnitNames(OptSeq(pod.k8s_head_deployment))

TailNames == UnitNames(OptSeq(pod.k8s_tail_deployment))

ShardNames == UnitNames(pod.k8s_deployments)

\* The unwinding was of exactly one completed start(): every unit once.
ClosingOneStart ==
    /\ Len(closing) = Cardinality(Units(pod))
    /\ {closing[i] : i \in DOMAIN closing} = Units(pod)

\* C1: with a head, N shards and a tail, after a completed start(), close()
\* sends the deletes in the reverse of the start order: tail, then the shards
\* from the last to shard 0, then head; while close() runs, the deletes sent
\* so far are a prefix of that.
C1_TeardownReversesStart ==
    (/\ call = "close"
     /\ pc \in {"idle", "close"}
     /\ ClosingOneStart
     /\ HasHead
     /\ HasTail) =>
        LET expected == TailNames \o Reverse(ShardNames) \o HeadNames
        IN /\ IsPrefix(DeleteNames(trace), expected)
           /\ pc = "idle" => DeleteNames(trace) = expected

\* The units whose enter_context had returned when the running / last
\* start() ended: in deferred mode every create that succeeded, in blocking
\* mode every unit whose readiness wait returned.
IsReady(e) == e[1] = "ready"

IsCreate(e) == e[1] = "create"

EnteredNames ==
    IF args.noblock_on_start
    THEN LET cs == EntryNames(SelectSeq(trace, IsCreate))
         IN IF result = "ok" THEN cs ELSE SubSeq(cs, 1, Len(cs) - 1)
    ELSE EntryNames(SelectSeq(trace, IsReady))

\* C2: when start() ends with an error, every unit started before has been
\* sent exactly one delete, in reverse start order, and none is left owed a
\* delete.
C2_FailedStartClosesStarted ==
    (call = "start" /\ pc = "idle" /\ result = ControlPlaneError) =>
        /\ DeleteNames(trace) = Reverse(EnteredNames)
        /\ \A i \in DOMAIN EnteredNames : EnteredNames[i] \notin owed

\* C3: in deferred mode, when wait_start_success() ends because a unit's
\* readiness wait raised, the caller gets that error, the exit stack has been
\* unwound with one delete per callback, and no started unit is left
\* without a delete attempt.
C3_FailedWaitClosesAll ==
    (call = "wait" /\ pc = "idle" /\ raising # "none") =>
        /\ args.noblock_on_start
        /\ result = raising
        /\ exitStack = <<>>
        /\ owed = {}
        /\ \A i \in DOMAIN closing :
              Count(DeleteNames(trace), closing[i].name)
                  = Count(UnitNames(closing), closing[i].name)

C3_Witness ==
    /\ call = "wait"
    /\ pc = "idle"
    /\ result = ControlPlaneError
    /\ Len(closing) >= 3
    /\ Len(DeleteNames(trace)) = Len(closing)

\* The create and ready events a blocking start() makes, in order.
RECURSIVE CreateThenReady(_)
CreateThenReady(names) ==
    IF names = <<>> THEN <<>>
    ELSE <<<<"create", Head(names)>>, <<"ready", Head(names)>>>>
            \o CreateThenReady(Tail(names))

\* C4: with noblock_on_start false, start() creates head, shard 0 .. shard
\* N-1, tail in that order, and creates a unit only after the readiness wait
\* of the unit before it has returned.
C4_BlockingStartOrder ==
    (call = "start" /\ ~args.noblock_on_start) =>
        LET expected ==
                CreateThenReady(HeadNames \o ShardNames \o TailNames)
            events == SelectSeq(trace, IsUnitEvent)
        IN /\ IsPrefix(events, expected)
           /\ (pc = "idle" /\ result = "ok") => events = expected

C4_Witness ==
    /\ call = "start"
    /\ ~args.noblock_on_start
    /\ pc = "idle"
    /\ result = "ok"
    /\ HasHead
    /\ HasTail
    /\ NumShards >= 2

\* C5: when there is a head, a shard's deployment exists only while the
\* head's exists; when there is a tail, the tail's deployment exists only
\* while every shard's exists.
C5_HeadAndTailSpanShards ==
    /\ HasHead =>
          ((\E i \in DOMAIN pod.k8s_deployments :
                DeployName(pod.k8s_deployments[i]) \in cluster)
            => \A h \in pod.k8s_head_deployment : DeployName(h) \in cluster)
    /\ HasTail =>
          ((\E t \in pod.k8s_tail_deployment : DeployName(t) \in cluster)
            => \A i \in DOMAIN pod.k8s_deployments :
                  DeployName(pod.k8s_deployments[i]) \in cluster)

\* A unit's wait_start_success returns in this step.
ReadyStep ==
    /\ Len(trace') = Len(trace) + 1
    /\ trace'[Len(trace')][1] = "ready"

\* C6: a unit's wait_start_success returns only when the listing that
\* triggers the return shows as many Running pod IPs under the unit's label
\* as the unit's replica count.
C6_ReadyOnCurrentListing ==
    [][ReadyStep => Cardinality(ready_on') = CurUnit.num_replicas]_vars

\* A caller calls K8sPod.wait_start_success in this step.
WaitCallStep == pc = "idle" /\ call' = "wait" /\ calls' = calls + 1

\* C7: wait_start_success() with noblock_on_start false fails at once with
\* the precondition error: no listing, no close(), nothing changed.
C7_WaitNeedsDeferredMode ==
    [][(WaitCallStep /\ ~args.noblock_on_start) =>
          /\ result' = ValueError
          /\ pc' = "idle"
          /\ polls' = 0
          /\ trace' = <<>>
          /\ UNCHANGED <<exitStack, pod, cluster, namespace, owed>>]_vars

C7_Witness ==
    /\ call = "wait"
    /\ result = ValueError
    /\ exitStack # <<>>

\* C8: close() never raises and sends one delete per callback of the exit
\* stack, whichever deletes fail.
C8_CloseAttemptsEveryDelete ==
    /\ (pc = "close" \/ (pc = "idle" /\ call = "close")) =>
          /\ Len(DeleteNames(trace)) + Len(exitStack) = Len(closing)
          /\ \A i \in DOMAIN closing :
                Count(DeleteNames(trace) \o UnitNames(exitStack),
                      closing[i].name)
                    = Count(UnitNames(closing), closing[i].name)
    /\ (pc = "idle" /\ call = "close") => (result = "ok" /\ exitStack = <<>>)

\* A delete failed (the deployment is still there) and later deletes of the
\* same close() were sent all the same.
C8_Witness ==
    /\ call = "close"
    /\ pc = "idle"
    /\ result = "ok"
    /\ Len(trace) >= 3
    /\ trace[1][2] \in cluster

\* A caller calls close() on a unit directly in this step.
UnitCloseStep == pc = "idle" /\ call' = "unit_close" /\ calls' = calls + 1

\* C9: close() on a unit, started or not, closed before or not, does not
\* raise and leaves the sibling units' deployments, the exit stack and the
\* units' in-memory state as they were.
C9_UnitCloseLeavesSiblings ==
    [][UnitCloseStep =>
          /\ result' = "ok"
          /\ UNCHANGED <<exitStack, pod>>
          /\ \A v \in Units(pod) :
                v.name # trace'[1][2] =>
                    (DeployName(v) \in cluster' <=> DeployName(v) \in cluster)
      ]_vars

\* In deferred mode: close() of a unit never started, while siblings run.
C9_Witness ==
    /\ call = "unit_close"
    /\ result = "ok"
    /\ args.noblock_on_start
    /\ exitStack # <<>>
    /\ cluster # {}
    /\ \A i \in DOMAIN exitStack : exitStack[i].name # trace[1][2]

\* C10: the plan has a head iff parallel > 1, or more than one upstream need
\* and replicas > 1, or uses_before is set; and a tail iff parallel > 1 or
\* uses_after is set.
C10_HeadTailRule ==
    pc # "new" =>
        LET head == \/ args.parallel > 1
                    \/ (args.needs > 1 /\ args.replicas > 1)
                    \/ args.uses_before # None
            tail == args.parallel > 1 \/ args.uses_after # None
        IN /\ pod.deployment_args.head_deployment # {} <=> head
           /\ pod.deployment_args.tail_deployment # {} <=> tail
           /\ HasHead <=> head
           /\ HasTail <=> tail

C10_Witness ==
    /\ pc = "idle"
    /\ args.needs = 2
    /\ args.replicas = 1
    /\ args.parallel = 1
    /\ args.uses_before = None
    /\ args.uses_after = None
    /\ ~HasHead
    /\ ~HasTail

\* C11: the pod holds exactly `parallel` shard units; a single shard is named
\* as the pod, and of several, shard i is named '<base>-<i>' (i from 0), so
\* the shard names differ from each other and from '<base>-head' and
\* '<base>-tail'.
C11_ShardCountAndNames ==
    (pc # "new" /\ args.parallel >= 1) =>
        LET shards == pod.k8s_deployments
            base == args.name
        IN /\ Len(shards) = args.parallel
           /\ args.parallel = 1 => shards[1].name = base
           /\ args.parallel > 1 =>
                \A i \in DOMAIN shards :
                    shards[i].name = base \o <<"-", ToString(i - 1)>>
           /\ \A i, j \in DOMAIN shards :
                i # j => shards[i].name # shards[j].name
           /\ \A i \in DOMAIN shards :
                /\ shards[i].name # base \o <<"-", "h", "e", "a", "d">>
                /\ shards[i].name # base \o <<"-", "t", "a", "i", "l">>

C11_Witness ==
    /\ pc = "idle"
    /\ args.parallel = 3
    /\ Len(pod.k8s_deployments) = 3
    /\ pod.k8s_deployments[3].name = args.name \o <<"-", "2">>
    /\ HasHead
    /\ HasTail

\* C12: a pod with parallel < 1 or replicas < 1 is never constructed (its
\* construction fails), and no control-plane call is made for it.
C12_InvalidCountsRejected ==
    (args.parallel < 1 \/ args.replicas < 1) =>
        /\ pc = "new"
        /\ ~namespace
        /\ cluster = {}
        /\ trace = <<>>

ExportStep == pc = "idle" /\ call' = "deployments" /\ calls' = calls + 1

\* C14: the deployments property of a pod not named 'gateway' lists the node
\* descriptors of its units in the order head, shard 0 .. shard N-1, tail,
\* the order in which a completed start() created them; that of the pod
\* named 'gateway' holds one descriptor; reading it changes no unit and not
\* the exit stack.
C14_DeploymentsExport ==
    [][ExportStep =>
          /\ UNCHANGED <<pod, exitStack, cluster, services>>
          /\ IF args.name = GatewayName
             THEN Len(exported') = 1
             ELSE /\ UnitNames(exported')
                        = HeadNames \o ShardNames \o TailNames
                  /\ \A i \in DOMAIN exported' :
                        \E u \in Units(pod) :
                            /\ exported'[i].name = u.name
                            /\ exported'[i].head_host
                                = u.dns_name \o <<".", "ns", ".", "svc">>
                            /\ exported'[i].head_port_in = 8081
                            /\ exported'[i].tail_port_out = 8082
                  /\ (call = "start" /\ result = "ok") =>
                        UnitNames(exported')
                            = EntryNames(SelectSeq(trace, IsCreate))
      ]_vars

C14_Witness ==
    /\ call = "deployments"
    /\ args.name # GatewayName
    /\ Len(exported) = 5
    /\ exitStack # <<>>

\* C15: a unit only moves forward through Unstarted, Starting, Ready,
\* Closing, Closed: one that has been closed is not created again, and one
\* that is Ready does not go back to Starting.
C15_UnitsOnlyMoveForward ==
    [][\A n \in DOMAIN phase :
          /\ phase[n] = "Closed" => phase'[n] # "Starting"
          /\ phase[n] = "Ready" => phase'[n] # "Starting"]_vars

\* A unit wait lists the pods in this step (and the listing does not raise).
ListingStep == Waiting /\ polls' = PollsSoFar + 1

\* C16: a unit wait that has so far seen no Running pod of the unit, in k
\* listings, goes on to listing k+1; it returns on that listing only if it
\* shows at least num_replicas Running pods, does return on it if it shows
\* exactly that many, and then lists no more: the wait took k+1 listings.
C16_ReturnsOnFirstFullListing ==
    [][(ListingStep /\ pod_ips = {}) =>
          IF ReadyStep
          THEN /\ Cardinality(ready_on') >= CurUnit.num_replicas
               /\ pc' = "idle" \/ cur' = cur + 1
          ELSE /\ Cardinality(pod_ips') < CurUnit.num_replicas
               /\ UNCHANGED <<pc, cur>>
      ]_vars

\* A wait for one replica returned on its third listing: the two before
\* showed no Running pod of the unit.
C16_Witness ==
    /\ trace # <<>>
    /\ trace[Len(trace)][1] = "ready"
    /\ polls = 3
    /\ Cardinality(ready_on) = 1
    /\ args.replicas = 1

\* C17: start() issues the namespace create first, before the create of any
\* unit, so a deployment exists only in a namespace that was created; no
\* call deletes the namespace: once created it stays, also after close().
C17_NamespaceFirstAndKept ==
    [][/\ namespace => namespace'
       /\ cluster' # {} => namespace'
       /\ call' = "start" =>
             /\ trace' # <<>>
             /\ trace'[1] = <<"create_namespace", args.k8s_namespace>>
             /\ \A i \in 2..Len(trace') :
                   trace'[i][1] \in {"create", "ready"}
       /\ call' # "start" =>
             \A i \in DOMAIN trace' : trace'[i][1] \in {"delete", "ready"}
      ]_vars

C17_Witness ==
    /\ call = "close"
    /\ pc = "idle"
    /\ Len(closing) >= 2
    /\ cluster = {}
    /\ namespace

\* C18: in deferred mode wait_start_success() waits on head, shard 0 ..
\* shard N-1, tail in that order: the unit being polled is the one after
\* those whose wait has returned, and the call returns normally only when
\* the wait of every unit has returned.
C18_DeferredWaitOrder ==
    (call = "wait" /\ args.noblock_on_start) =>
        LET expected == HeadNames \o ShardNames \o TailNames
            returned == EntryNames(SelectSeq(trace, IsReady))
        IN /\ IsPrefix(returned, expected)
           /\ pc = "wait" =>
                /\ Len(returned) < Len(expected)
                /\ CurUnit.name = expected[Len(returned) + 1]
           /\ (pc = "idle" /\ result = "ok") => returned = expected

C18_Witness ==
    /\ call = "wait"
    /\ args.noblock_on_start
    /\ pc = "idle"
    /\ result = "ok"
    /\ HasHead
    /\ HasTail
    /\ NumShards >= 2
    /\ Len(SelectSeq(trace, IsReady)) = NumShards + 2

\* C19: shard i of a pod carries shard index i, so the indices of the shards
\* differ pairwise; beside it the shards are built from the same arguments;
\* the identity tag in a shard's container arguments is its own index.
C19_ShardsCarryTheirIndex ==
    pc # "new" =>
        LET shards == pod.k8s_deployments
        IN /\ \A i \in DOMAIN shards : shards[i].shard_id = {i - 1}
           /\ \A i, j \in DOMAIN shards :
                /\ i # j => shards[i].shard_id # shards[j].shard_id
                /\ shards[i].uses = shards[j].uses
                /\ shards[i].num_replicas = shards[j].num_replicas
                /\ shards[i].k8s_namespace = shards[j].k8s_namespace
           /\ \A i \in DOMAIN shards : \A d \in services :
                d.name = shards[i].dns_name => d.pea_id = {i - 1}

\* C20: a unit's deployment is created, recognised by wait_start_success and
\* deleted under one identifier: a Running pod labelled with the identifier
\* of the created deployment counts for the unit, and the delete call of the
\* unit's close(), unless the call itself fails, leaves no deployment under
\* the identifier start() created it with.
C20_OneNameForCreateWaitDelete ==
    [][(pc = "close" /\ faults' = faults) =>
            LET u == ExitNext(exitStack)
            IN /\ DeployName(u) = u.name
               /\ IsMine(u, [ip |-> 1, app |-> DeployName(u),
                             phase |-> "Running"])
               /\ DeployName(u) \notin cluster']_vars

\* C21: against a control plane that reports as Running exactly as many pods
\* of a unit as its deployment was created with, every unit wait returns:
\* a running start() and a running wait_start_success() return.
C21_SteadyClusterWaitReturns ==
    (pc \in {"start", "wait"}) ~> (pc = "idle")

\* The delete calls the exit stack still owes the unit named n.
PendingDeletes(stack, n) == Count(UnitNames(stack), n)

\* The orchestrator sends a delete call for the unit named n in this step.
DeleteStep(n) == trace' = Append(trace, <<"delete", n>>)

\* C22: a unit gets at most one delete call for each time it was started.
\* Every delete call for a unit uses up one callback of the exit stack; a
\* unit gains a callback only one at a time, inside a start() call that has
\* created it once; when a close() has returned, and when a deferred
\* wait_start_success() has failed and closed the pod, no callback is left,
\* and a close() that finds no callback returns without any delete call.
C22_OneDeletePerStart ==
    [][/\ \A u \in Units(pod) :
            LET before == PendingDeletes(exitStack, u.name)
                after == PendingDeletes(exitStack', u.name)
            IN /\ DeleteStep(u.name) => after = before - 1
               /\ after > before =>
                     /\ after = before + 1
                     /\ call' = "start"
                     /\ Count(EntryNames(SelectSeq(trace', IsCreate)),
                              u.name) = 1
       /\ (/\ pc' = "idle"
           /\ \/ call' = "close"
              \/ call' = "wait" /\ result' = ControlPlaneError)
             => exitStack' = <<>>
       /\ (pc = "idle" /\ call' = "close" /\ exitStack = <<>>)
             => (pc' = "idle" /\ trace' = <<>>)]_vars

\* start(), then a deferred wait_start_success() whose listing raised and
\* which closed every unit, then a close() that sent no delete call.
C22_Witness ==
    /\ args.noblock_on_start
    /\ calls = 3
    /\ call = "close"
    /\ pc = "idle"
    /\ closing = <<>>
    /\ trace = <<>>
    /\ faults = 1
    /\ cluster = {}
    /\ NumShards >= 2
    /\ \A u \in Units(pod) : phase[u.name] = "Closed"

====
